---- MODULE Spec2Model ----
(***************************************************************************)
(* Model of the conversion pipeline of converter.py: the Dependency        *)
(* Locator (DependencyManager.get_ffmpeg_path), the Rasterizer Adapter     *)
(* (MediaConverter.render_tgs), the Encoder Invoker                        *)
(* (MediaConverter._run_ffmpeg) and the orchestrators                      *)
(* MediaConverter.to_gif / MediaConverter.to_mp4.                          *)
(*                                                                         *)
(* Every convert call is a coroutine; the model follows each call through  *)
(* its steps and lets the steps of different calls interleave.  The        *)
(* encoder child process is a process of its own: it is started by         *)
(* create_subprocess_exec, runs, and exits with a return code.             *)
(*                                                                         *)
(* The chat handlers handle_sticker, handle_emoji and handle_cb of one     *)
(* user are coroutines as well; handle_cb runs one convert call.           *)
(***************************************************************************)
EXTENDS Integers, Sequences, FiniteSets, TLC

(***************************************************************************)
(* Bounds of the model.                                                    *)
(***************************************************************************)
MaxFrames == 3
MaxFps2 == 5

\* the convert calls that may be in progress at the same time
Calls == {1, 2}

(***************************************************************************)
(* Program constants.                                                      *)
(***************************************************************************)
TARGET_FPS == 30
FFMPEG_PRESET == "slow"
FFMPEG_CRF == "18"
step == 2

None == "None"

(***************************************************************************)
(* The environment of the process.                                         *)
(***************************************************************************)
\* names tempfile.mkdtemp can hand out
DirNames == {"/tmp/tmpa", "/tmp/tmpb"}
\* the input files the caller passes
InPaths == {"/in/sticker"}
\* exception classes a faulting library call raises (all derive from Exception)
ExcClasses == {"OSError", "ValueError", "RuntimeError"}
\* exit statuses of the encoder process
ExitCodes == {0, 1, -9}
\* states of the winget package tree
\* ("unreadable": listing it fails; "denied": even stat() of it is refused)
TreeStates == {"missing", "empty", "has", "unreadable", "denied"}
Envs == [which : BOOLEAN, appdata : BOOLEAN, tree : TreeStates]
WingetExe == "C:/AppData/Microsoft/WinGet/Packages/ff/bin/ffmpeg.exe"
\* an animation file: total frame count, native frame rate in half units
\* (lottie_animation_get_framerate returns a float; fps2 = 2 * framerate)
Anims == [total : 0 .. MaxFrames, fps2 : 0 .. MaxFps2]

VARIABLES
    rlottie_python,  \* TRUE iff the optional import succeeded
    env,             \* the search path and the winget tree of the process
    anim,            \* the animation stored in each input file
    exists,          \* the temporary directories that exist
    frames,          \* the files in each temporary directory
    owner,           \* the call that created each existing directory
    outFiles,        \* the output files that exist
    pc,              \* where each call is
    fmt,             \* "gif" (to_gif) or "mp4" (to_mp4)
    is_tgs, in_path, out_path,
    bin_path, temp_dir, cmd, ptrn, fps,
    proc,            \* the encoder child process of each call
    returncode,
    result,          \* how the call ends: "True", "False", "Raise"
    hist             \* what each call has done so far

\* the chat handlers of one user (handle_sticker, handle_emoji, handle_cb)
VARIABLES
    user_data,       \* context.user_data: the keys 'fid' and 'type'
    cb,              \* the handle_cb coroutine: where it is, and its locals
    emoji,           \* where the handle_emoji coroutine is
    inFiles,         \* the temporary input files that exist
    chat             \* what the user sees, and what the bot was asked to send

botVars == <<user_data, cb, emoji, inFiles, chat>>

vars == <<rlottie_python, env, anim, exists, frames, owner, outFiles, pc, fmt,
          is_tgs, in_path, out_path, bin_path, temp_dir, cmd, ptrn, fps,
          proc, returncode, result, hist, botVars>>

callVars == <<fmt, is_tgs, in_path, out_path>>
fsVars == <<exists, frames, owner>>
worldVars == <<rlottie_python, env, anim>>
\* what no step of a convert call changes
envVars == <<worldVars, botVars>>
\* the state of the convert calls, the output files excepted
convVars == <<fsVars, pc, callVars, bin_path, temp_dir, cmd, ptrn, fps, proc,
              returncode, result, hist>>

(***************************************************************************)
(* DependencyManager.get_ffmpeg_path                                       *)
(***************************************************************************)
\* next(winget_path.rglob('ffmpeg.exe'), None) inside try / except Exception
rglob_first(tree) ==
    IF tree = "has" THEN WingetExe ELSE None

\* the value returned
get_ffmpeg_path(e) ==
    IF e.which THEN "ffmpeg"
    ELSE IF e.appdata /\ e.tree # "missing" THEN rglob_first(e.tree)
    ELSE None

\* winget_path.rglob is called: shutil.which found nothing, LOCALAPPDATA is
\* set and winget_path.exists() is true
ScansTree(e) == ~e.which /\ e.appdata /\ e.tree # "missing"

\* winget_path.exists() is outside the try block: Path.exists() passes on
\* an OSError other than "not found" (permission refused on stat)
ExistsCanRaise(e) == ~e.which /\ e.appdata /\ e.tree = "denied"

\* the value of a name that was never bound because the call raised
Unbound == "Unbound"

(***************************************************************************)
(* MediaConverter.render_tgs                                               *)
(***************************************************************************)
\* int(x) of a float given in half units: truncation toward zero
int(x2) == IF x2 >= 0 THEN x2 \div 2 ELSE -((-x2) \div 2)

out_fps_m(native_fps) == native_fps
out_fps(native_fps) == native_fps \div step

Pad4(k) ==
    IF k < 10 THEN "000" \o ToString(k)
    ELSE IF k < 100 THEN "00" \o ToString(k)
    ELSE IF k < 1000 THEN "0" \o ToString(k)
    ELSE ToString(k)

\* "frame_%04d.png" % k
FrameFile(k) == "frame_" \o Pad4(k) \o ".png"

\* os.path.join(output_dir, "frame_%04d.png")
Pattern(output_dir) == output_dir \o "/frame_%04d.png"

FileNames == {FrameFile(k) : k \in 0 .. MaxFrames}

\* except Exception: which raised classes the handler catches
CaughtByException_m(cls) == cls = "OSError"
CaughtByException(cls) == cls \in {"OSError", "ValueError", "RuntimeError"}

\* the faults of one render_tgs call: none, a fault while loading, or a fault
\* in save_frame of source frame i (which may leave the file behind)
Faults ==
    {[at |-> "none", i |-> 0, cls |-> "none", partial |-> FALSE]}
    \cup [at : {"load"}, i : {0}, cls : ExcClasses, partial : {FALSE}]
    \cup [at : {"frame"}, i : 0 .. MaxFrames, cls : ExcClasses,
          partial : BOOLEAN]

\* anim.save_frame(ptrn % (i // step), frame_num=i, ...): the call made
SaveFrame_m(i) == [file |-> FrameFile(i), frame_num |-> i]
SaveFrame(i) == [file |-> FrameFile(i \div step), frame_num |-> i]

\* for i in range(0, total_frames, step): save_frame(ptrn % (i // step), i)
\* acc.files: the files written so far, acc.saves: the save_frame calls made
RenderLoop_m(i, total_frames, f, acc) ==
    IF total_frames = 0
    THEN [files |-> acc.files, saves |-> acc.saves, exc |-> "ValueError"]
    ELSE LET n == (total_frames + 1) \div step
             calls == [k \in 1 .. n |-> SaveFrame(step * (k - 1))]
         IN  [files |-> {calls[k].file : k \in 1 .. n}, saves |-> calls,
              exc |-> "none"]
RECURSIVE RenderLoop(_, _, _, _)
RenderLoop(i, total_frames, f, acc) ==
    IF i >= total_frames
    THEN [files |-> acc.files, saves |-> acc.saves, exc |-> "none"]
    ELSE LET call == SaveFrame(i) IN
         IF f.at = "frame" /\ f.i = i
         THEN [files |-> IF f.partial THEN acc.files \cup {call.file}
                         ELSE acc.files,
               saves |-> Append(acc.saves, call),
               exc |-> f.cls]
         ELSE RenderLoop(i + step, total_frames, f,
                         [files |-> acc.files \cup {call.file},
                          saves |-> Append(acc.saves, call)])

\* the whole of render_tgs: the value returned (or the exception raised) and
\* the files written into output_dir
\* whether a call into the library raises during this run: from_tgs (line
\* 86) or the save_frame of a kept frame (lines 96-102)
LibraryRaises(lib, a, f) ==
    /\ lib
    /\ \/ f.at = "load"
       \/ f.at = "frame" /\ f.i < a.total /\ f.i % step = 0

render_tgs(lib, a, output_dir, f) ==
    LET absent(files, saves, cls, caught) ==
            [ptrn |-> None, fps |-> 0, files |-> files, saves |-> saves,
             logged |-> IF caught THEN cls ELSE "none",
             raised |-> IF caught THEN "none" ELSE cls]
    IN
    IF ~lib
    THEN [ptrn |-> None, fps |-> 0, files |-> {}, saves |-> <<>>,
          logged |-> "none", raised |-> "none"]
    ELSE IF f.at = "load"
         THEN absent({}, <<>>, f.cls, CaughtByException(f.cls))
         ELSE LET r == RenderLoop(0, a.total, f,
                                  [files |-> {}, saves |-> <<>>])
              IN  IF r.exc = "none"
                  THEN [ptrn |-> Pattern(output_dir),
                        fps |-> out_fps(int(a.fps2)),
                        files |-> r.files, saves |-> r.saves,
                        logged |-> "none", raised |-> "none"]
                  ELSE absent(r.files, r.saves, r.exc,
                              CaughtByException(r.exc))

(***************************************************************************)
(* Initial state: no call has started, the temporary file system is empty. *)
(***************************************************************************)
NoHist == [scanned |-> FALSE, mkdtemp |-> 0, raster |-> 0, faulted |-> FALSE,
           libfault |-> FALSE,
           saves |-> <<>>, enc |-> 0, rmtree |-> 0, rmFault |-> FALSE]

InitCalls ==
    /\ exists = {}
    /\ frames = [d \in DirNames |-> {}]
    /\ owner = [d \in DirNames |-> 0]
    /\ outFiles = {}
    /\ pc = [c \in Calls |-> "idle"]
    /\ fmt = [c \in Calls |-> None]
    /\ is_tgs = [c \in Calls |-> FALSE]
    /\ in_path = [c \in Calls |-> None]
    /\ out_path = [c \in Calls |-> None]
    /\ bin_path = [c \in Calls |-> None]
    /\ temp_dir = [c \in Calls |-> None]
    /\ cmd = [c \in Calls |-> <<>>]
    /\ ptrn = [c \in Calls |-> None]
    /\ fps = [c \in Calls |-> 0]
    /\ proc = [c \in Calls |-> "none"]
    /\ returncode = [c \in Calls |-> None]
    /\ result = [c \in Calls |-> None]
    /\ hist = [c \in Calls |-> NoHist]

(***************************************************************************)
(* Command construction of to_gif and to_mp4                               *)
(***************************************************************************)
\* the path the caller wants the result at
OutPathOf(c, f) == "/out/" \o ToString(c) \o "." \o f

\* str(fps)
str(n) == ToString(n)

\* if not bin_path: return False
ToolMissing_m(b) == FALSE
ToolMissing(b) == b = None

\* if not ptrn: return False
RenderFailed_m(p) == FALSE
RenderFailed(p) == p = None

\* cmd = [bin_path, '-y']
BaseCmd(b) == <<b, "-y">>

\* cmd.extend(['-framerate', str(fps), '-i', ptrn]) / cmd.extend(['-i', in_path])
InputArgs_m(tgs, p, n, path) == <<"-framerate", str(n), "-i", path>>
InputArgs(tgs, p, n, path) ==
    IF tgs THEN <<"-framerate", str(n), "-i", p>> ELSE <<"-i", path>>

GifVf ==
    "fps=" \o ToString(TARGET_FPS) \o ",scale=512:512:flags=lanczos,"
    \o "pad=912:512:(ow-iw)/2:(oh-ih)/2:black,"
    \o "split[s0][s1];[s0]palettegen[p];[s1][p]paletteuse"

Mp4Vf ==
    "scale=512:512:force_original_aspect_ratio=decrease,"
    \o "pad=912:512:(ow-iw)/2:(oh-ih)/2:black"

\* to_gif: cmd.extend(['-vf', vf, '-loop', '0', out_path])
GifArgs_m(out) == <<"-vf", GifVf, "-loop", out, out>>
GifArgs(out) == <<"-vf", GifVf, "-loop", "0", out>>

\* to_mp4: cmd.extend(['-c:v', ...]); cmd.extend(['-vf', vf, out_path])
Mp4Args_m(out) ==
    <<"-c:v", "libx264", "-crf", FFMPEG_CRF, "-preset", FFMPEG_PRESET>>
    \o <<"-vf", Mp4Vf, "-loop", "0", out>>
Mp4Args(out) ==
    <<"-c:v", "libx264", "-pix_fmt", "yuv420p", "-crf", FFMPEG_CRF,
      "-preset", FFMPEG_PRESET>> \o <<"-vf", Mp4Vf, out>>

OutputArgs(f, out) == IF f = "gif" THEN GifArgs(out) ELSE Mp4Args(out)

(***************************************************************************)
(* MediaConverter._run_ffmpeg                                              *)
(***************************************************************************)
\* await process.communicate() returns once the child process has exited
CommunicateReturns_m(p) == p \in {"running", "exited"}
CommunicateReturns(p) == p = "exited"

\* if process.returncode != 0: return False / return True
ReturnCodeOk_m(rc) == rc >= 0
ReturnCodeOk(rc) == rc = 0

\* the directory the encoder reads numbered frames from, None when the
\* command's input is a plain file
InputOf(args) ==
    IF Len(args) >= 6 /\ args[3] = "-framerate" THEN args[6]
    ELSE IF Len(args) >= 4 THEN args[4] ELSE None

FrameDirOf(args) ==
    IF \E d \in DirNames : InputOf(args) = Pattern(d)
    THEN CHOOSE d \in DirNames : InputOf(args) = Pattern(d)
    ELSE None

(***************************************************************************)
(* tempfile.mkdtemp and shutil.rmtree                                      *)
(***************************************************************************)
\* mkdtemp creates a directory under a name that does not exist yet
FreshNames_m(ex) == DirNames
FreshNames(ex) == DirNames \ ex

\* if temp_dir and os.path.exists(temp_dir)
NeedsCleanup_m(t, ex) == FALSE
NeedsCleanup(t, ex) == t # None /\ t \in ex

Did(c, what) == [hist EXCEPT ![c][what] = @ + 1]

(***************************************************************************)
(* MediaConverter.to_gif / MediaConverter.to_mp4, step by step             *)
(***************************************************************************)
\* entry: resolve the tool; return False at once when there is none
\* the call with its arguments
EnterWith(c, f, tgs, p, out) ==
    /\ pc[c] = "idle"
    /\ fmt' = [fmt EXCEPT ![c] = f]
    /\ is_tgs' = [is_tgs EXCEPT ![c] = tgs]
    /\ in_path' = [in_path EXCEPT ![c] = p]
    /\ out_path' = [out_path EXCEPT ![c] = out]
    /\ \/ LET b == get_ffmpeg_path(env) IN
          /\ bin_path' = [bin_path EXCEPT ![c] = b]
          /\ hist' = [hist EXCEPT ![c].scanned = ScansTree(env)]
          /\ IF ToolMissing(b)
             THEN /\ pc' = [pc EXCEPT ![c] = "done"]
                  /\ result' = [result EXCEPT ![c] = "False"]
                  /\ cmd' = cmd
             ELSE /\ pc' = [pc EXCEPT ![c] = "try"]
                  /\ cmd' = [cmd EXCEPT ![c] = BaseCmd(b)]
                  /\ result' = result
       \/ /\ ExistsCanRaise(env)
          /\ bin_path' = [bin_path EXCEPT ![c] = Unbound]
          /\ pc' = [pc EXCEPT ![c] = "done"]
          /\ result' = [result EXCEPT ![c] = "Raise"]
          /\ UNCHANGED <<cmd, hist>>
    /\ UNCHANGED <<envVars, fsVars, outFiles, temp_dir, ptrn, fps, proc,
                   returncode>>

Enter(c, f) ==
    \E tgs \in BOOLEAN, p \in InPaths : EnterWith(c, f, tgs, p, OutPathOf(c, f))

to_gif(c) == Enter(c, "gif")

to_mp4(c) == Enter(c, "mp4")

\* is_tgs is false: the input is the original file
PlainInput(c) ==
    /\ pc[c] = "try"
    /\ ~is_tgs[c]
    /\ cmd' = [cmd EXCEPT ![c] = @ \o InputArgs(FALSE, ptrn[c], fps[c], in_path[c])]
    /\ pc' = [pc EXCEPT ![c] = "encode"]
    /\ UNCHANGED <<envVars, fsVars, outFiles, callVars, bin_path, temp_dir,
                   ptrn, fps, proc, returncode, result, hist>>

\* temp_dir = tempfile.mkdtemp()
Mkdtemp_m(c) ==
    /\ pc[c] = "try"
    /\ \E d \in FreshNames(exists) :
         /\ exists' = exists \cup {d}
         /\ frames' = [frames EXCEPT ![d] = {}]
         /\ owner' = [owner EXCEPT ![d] = c]
         /\ temp_dir' = [temp_dir EXCEPT ![c] = d]
    /\ hist' = Did(c, "mkdtemp")
    /\ pc' = [pc EXCEPT ![c] = "render"]
    /\ UNCHANGED <<envVars, outFiles, callVars, bin_path, cmd, ptrn, fps,
                   proc, returncode, result>>
Mkdtemp(c) ==
    /\ pc[c] = "try"
    /\ is_tgs[c]
    /\ \E d \in FreshNames(exists) :
         /\ exists' = exists \cup {d}
         /\ frames' = [frames EXCEPT ![d] = {}]
         /\ owner' = [owner EXCEPT ![d] = c]
         /\ temp_dir' = [temp_dir EXCEPT ![c] = d]
    /\ hist' = Did(c, "mkdtemp")
    /\ pc' = [pc EXCEPT ![c] = "render"]
    /\ UNCHANGED <<envVars, outFiles, callVars, bin_path, cmd, ptrn, fps,
                   proc, returncode, result>>

\* tempfile.mkdtemp() raises (no usable name, no space, no permission):
\* nothing catches it in to_gif / to_mp4, the finally clause runs and the
\* exception leaves the call
MkdtempFails(c) ==
    /\ pc[c] = "try"
    /\ is_tgs[c]
    /\ result' = [result EXCEPT ![c] = "Raise"]
    /\ pc' = [pc EXCEPT ![c] = "finally"]
    /\ UNCHANGED <<envVars, fsVars, outFiles, callVars, bin_path, temp_dir,
                   cmd, ptrn, fps, proc, returncode, hist>>

\* ptrn, fps = await cls.render_tgs(in_path, temp_dir)
Render(c) ==
    /\ pc[c] = "render"
    /\ \E f \in Faults :
         LET d == temp_dir[c]
             r == render_tgs(rlottie_python, anim[in_path[c]], d, f)
         IN
         /\ frames' = [frames EXCEPT ![d] = @ \cup r.files]
         /\ hist' = [Did(c, "raster") EXCEPT
                       ![c].faulted = (r.logged # "none" \/ r.raised # "none"),
                       ![c].libfault =
                           LibraryRaises(rlottie_python, anim[in_path[c]], f),
                       ![c].saves = r.saves]
         /\ IF r.raised # "none"
            THEN /\ result' = [result EXCEPT ![c] = "Raise"]
                 /\ pc' = [pc EXCEPT ![c] = "finally"]
                 /\ UNCHANGED <<ptrn, fps, cmd>>
            ELSE /\ ptrn' = [ptrn EXCEPT ![c] = r.ptrn]
                 /\ fps' = [fps EXCEPT ![c] = r.fps]
                 /\ IF RenderFailed(r.ptrn)
                    THEN /\ result' = [result EXCEPT ![c] = "False"]
                         /\ pc' = [pc EXCEPT ![c] = "finally"]
                         /\ cmd' = cmd
                    ELSE /\ cmd' = [cmd EXCEPT ![c] =
                                      @ \o InputArgs(TRUE, r.ptrn, r.fps, in_path[c])]
                         /\ pc' = [pc EXCEPT ![c] = "encode"]
                         /\ result' = result
    /\ UNCHANGED <<envVars, exists, owner, outFiles, callVars, bin_path,
                   temp_dir, proc, returncode>>

\* the command is completed and _run_ffmpeg starts the child process
Launch(c) ==
    /\ pc[c] = "encode"
    /\ cmd' = [cmd EXCEPT ![c] = @ \o OutputArgs(fmt[c], out_path[c])]
    /\ proc' = [proc EXCEPT ![c] = "running"]
    /\ pc' = [pc EXCEPT ![c] = "communicate"]
    /\ hist' = Did(c, "enc")
    /\ UNCHANGED <<envVars, fsVars, outFiles, callVars, bin_path, temp_dir,
                   ptrn, fps, returncode, result>>

\* create_subprocess_exec raises: except Exception -> return False
LaunchFails(c) ==
    /\ pc[c] = "encode"
    /\ cmd' = [cmd EXCEPT ![c] = @ \o OutputArgs(fmt[c], out_path[c])]
    /\ proc' = [proc EXCEPT ![c] = "failed"]
    /\ result' = [result EXCEPT ![c] = "False"]
    /\ pc' = [pc EXCEPT ![c] = "finally"]
    /\ hist' = Did(c, "enc")
    /\ UNCHANGED <<envVars, fsVars, outFiles, callVars, bin_path, temp_dir,
                   ptrn, fps, returncode>>

\* the encoder process reads its input, writes the output file when it
\* succeeds (and possibly a partial one when it does not) and exits
EncoderExit(c) ==
    /\ proc[c] = "running"
    /\ \E rc \in ExitCodes, wrote \in BOOLEAN :
         /\ returncode' = [returncode EXCEPT ![c] = rc]
         /\ outFiles' = IF wrote THEN outFiles \cup {cmd[c][Len(cmd[c])]}
                        ELSE outFiles
    /\ proc' = [proc EXCEPT ![c] = "exited"]
    /\ UNCHANGED <<envVars, exists, frames, owner, callVars, bin_path,
                   temp_dir, cmd, ptrn, fps, pc, result, hist>>

\* _, stderr = await process.communicate(); return process.returncode == 0
Communicate(c) ==
    /\ pc[c] = "communicate"
    /\ CommunicateReturns(proc[c])
    /\ result' = [result EXCEPT ![c] =
                    IF proc[c] = "exited" /\ ReturnCodeOk(returncode[c])
                    THEN "True" ELSE "False"]
    /\ pc' = [pc EXCEPT ![c] = "finally"]
    /\ UNCHANGED <<envVars, fsVars, outFiles, callVars, bin_path, temp_dir,
                   cmd, ptrn, fps, proc, returncode, hist>>

\* finally: if temp_dir and os.path.exists(temp_dir):
\*              shutil.rmtree(temp_dir, ignore_errors=True)
Finally(c) ==
    /\ pc[c] = "finally"
    /\ IF NeedsCleanup(temp_dir[c], exists)
       THEN LET d == temp_dir[c] IN
            /\ \/ /\ exists' = exists \ {d}
                  /\ frames' = [frames EXCEPT ![d] = {}]
                  /\ owner' = [owner EXCEPT ![d] = 0]
                  /\ hist' = Did(c, "rmtree")
               \/ \E rem \in SUBSET frames[d] :
                    /\ frames' = [frames EXCEPT ![d] = rem]
                    /\ hist' = [Did(c, "rmtree") EXCEPT ![c].rmFault = TRUE]
                    /\ UNCHANGED <<exists, owner>>
       ELSE UNCHANGED <<fsVars, hist>>
    /\ pc' = [pc EXCEPT ![c] = "done"]
    /\ UNCHANGED <<envVars, outFiles, callVars, bin_path, temp_dir, cmd,
                   ptrn, fps, proc, returncode, result>>

(***************************************************************************)
(* The chat handlers.  Each handler is a coroutine: it runs without        *)
(* interruption between two awaits, and other handlers of the same user    *)
(* may run while it is suspended in an await.  Every request to the chat   *)
(* platform either returns or raises.                                      *)
(***************************************************************************)
\* the stickers the platform knows: animated (TGS), video (WebM), static
Stickers ==
    {[file_id |-> "fidA", is_animated |-> TRUE, is_video |-> FALSE],
     [file_id |-> "fidV", is_animated |-> FALSE, is_video |-> TRUE],
     [file_id |-> "fidS", is_animated |-> FALSE, is_video |-> FALSE]}

StickerOf(fid) == CHOOSE st \in Stickers : st.file_id = fid

\* 'tgs' if st.is_animated else 'webm'
TypeOf(st) == IF st.is_animated THEN "tgs" ELSE "webm"

\* context.user_data['fid'] = ...; context.user_data['type'] = ...
SessionWrite_m(ud, st) == [ud EXCEPT !.fid = st.file_id]
SessionWrite(ud, st) == [fid |-> st.file_id, type |-> TypeOf(st)]

\* how an awaited request to the platform ends
Outcomes == {"ok", "fault"}

\* a path is a sequence of pieces: the directory and random stem, the suffix
TempStems == {"/tmp/tmpk3x9"}
Suffix(x) == "." \o x
NamedTemporaryFile(suffix) == {<<stem, suffix>> : stem \in TempStems}
PathStr(path) == IF path = <<>> THEN None ELSE path[1] \o path[2]
\* str.replace(old, new): every occurrence of old becomes new
Replace(path, old, new) ==
    [i \in DOMAIN path |-> IF path[i] = old THEN new ELSE path[i]]
\* the paths the temporary input file can have
BotInPaths ==
    {PathStr(path) : path \in NamedTemporaryFile(".tgs")
                              \cup NamedTemporaryFile(".webm")}

NoCb ==
    [pc |-> "idle", fid |-> None, st_type |-> None, fmt |-> None,
     in_p |-> <<>>, out_p |-> <<>>, conv |-> None, found |-> FALSE,
     raised |-> FALSE, unlinkFailed |-> FALSE]

InitHandlers ==
    /\ user_data = [fid |-> None, type |-> None]
    /\ cb = NoCb
    /\ emoji = "idle"
    /\ inFiles = {}
    /\ chat = [text |-> "keyboard", delivered |-> None, downloaded |-> None,
               asked |-> {}, sent |-> None]

\* handle_sticker: runs to its only await, the reply, in one step
handle_sticker ==
    /\ \E st \in Stickers :
         IF ~(st.is_animated \/ st.is_video)
         THEN /\ chat' = [chat EXCEPT !.sent = "TGS or WebM required."]
              /\ UNCHANGED user_data
         ELSE /\ user_data' = SessionWrite(user_data, st)
              /\ chat' = [chat EXCEPT !.sent = "Choose format:"]
    /\ UNCHANGED <<worldVars, convVars, outFiles, cb, emoji, inFiles>>

\* handle_emoji up to 'await context.bot.get_custom_emoji_stickers([eid])';
\* a text without a custom emoji gets "Unsupported content."
handle_emoji ==
    /\ emoji = "idle"
    /\ \E custom \in BOOLEAN :
         IF custom
         THEN emoji' = "lookup" /\ chat' = chat
         ELSE /\ emoji' = emoji
              /\ chat' = [chat EXCEPT !.sent = "Unsupported content."]
    /\ UNCHANGED <<worldVars, convVars, outFiles, user_data, cb, inFiles>>

\* the lookup returns a sticker, returns nothing, or raises (caught)
EmojiLookupReturns ==
    /\ emoji = "lookup"
    /\ emoji' = "idle"
    /\ \/ \E st \in Stickers :
            /\ user_data' = SessionWrite(user_data, st)
            /\ chat' = [chat EXCEPT !.sent = "Emoji detected."]
       \/ /\ chat' = [chat EXCEPT !.sent = "Unsupported content."]
          /\ UNCHANGED user_data
    /\ UNCHANGED <<worldVars, convVars, outFiles, cb, inFiles>>

\* handle_cb up to 'await q.answer()'
handle_cb ==
    /\ cb.pc = "idle"
    /\ \E f \in {"gif", "mp4"} : cb' = [cb EXCEPT !.pc = "answer", !.fmt = f]
    /\ UNCHANGED <<worldVars, convVars, outFiles, user_data, emoji, inFiles,
                   chat>>

\* q.answer() is over; fid and st_type are read; 'if not fid' chooses the
\* notice to show
CbAnswered ==
    /\ cb.pc = "answer"
    /\ \E o \in Outcomes :
         IF o = "fault"
         THEN cb' = [cb EXCEPT !.pc = "end", !.raised = TRUE]
         ELSE cb' = [cb EXCEPT !.fid = user_data.fid,
                               !.st_type = user_data.type,
                               !.pc = IF user_data.fid = None THEN "expired"
                                      ELSE "processing"]
    /\ UNCHANGED <<worldVars, convVars, outFiles, user_data, emoji, inFiles,
                   chat>>

\* await q.edit_message_text("Session expired."); return
CbExpired ==
    /\ cb.pc = "expired"
    /\ \E o \in Outcomes :
         /\ chat' = [chat EXCEPT !.asked = @ \cup {"expired"},
                                 !.text = IF o = "ok" THEN "expired" ELSE @]
         /\ cb' = [cb EXCEPT !.pc = "end", !.raised = (o = "fault")]
    /\ UNCHANGED <<worldVars, convVars, outFiles, user_data, emoji, inFiles>>

\* await q.edit_message_text("Processing ..."), then the temporary input
\* file is created and the output path derived from its name
CbProcessing ==
    /\ cb.pc = "processing"
    /\ \/ /\ chat' = [chat EXCEPT !.asked = @ \cup {"processing"}]
          /\ cb' = [cb EXCEPT !.pc = "end", !.raised = TRUE]
          /\ UNCHANGED inFiles
       \/ /\ chat' = [chat EXCEPT !.asked = @ \cup {"processing"},
                                  !.text = "processing"]
          /\ \/ /\ cb' = [cb EXCEPT !.pc = "end", !.raised = TRUE]
                /\ UNCHANGED inFiles
             \/ \E path \in NamedTemporaryFile(Suffix(cb.st_type)) :
                  /\ PathStr(path) \notin inFiles
                  /\ inFiles' = inFiles \cup {PathStr(path)}
                  /\ cb' = [cb EXCEPT
                              !.in_p = path,
                              !.out_p = Replace(path, Suffix(cb.st_type),
                                                Suffix(cb.fmt)),
                              !.pc = "download"]
    /\ UNCHANGED <<worldVars, convVars, outFiles, user_data, emoji>>

\* f_obj = await context.bot.get_file(fid); await f_obj.download_to_drive(in_p)
CbDownload ==
    /\ cb.pc = "download"
    /\ \E o \in Outcomes :
         IF o = "fault"
         THEN cb' = [cb EXCEPT !.pc = "syserror"] /\ chat' = chat
         ELSE /\ cb' = [cb EXCEPT !.pc = "convert"]
              /\ chat' = [chat EXCEPT !.downloaded = cb.fid]
    /\ UNCHANGED <<worldVars, convVars, outFiles, user_data, emoji, inFiles>>

\* is_tgs = (st_type == 'tgs'); MediaConverter.to_gif / to_mp4 is entered
CbConvert ==
    /\ cb.pc = "convert"
    /\ EnterWith(1, cb.fmt, cb.st_type = "tgs", PathStr(cb.in_p),
                 PathStr(cb.out_p))

\* if ok and os.path.exists(out_p)
Deliverable_m(ok, found) == found
Deliverable(ok, found) == ok /\ found

\* the convert call is over: it returned ok, or raised
CbConverted ==
    /\ cb.pc = "convert"
    /\ pc[1] = "done"
    /\ LET found == PathStr(cb.out_p) \in outFiles IN
       cb' = [cb EXCEPT
                !.conv = result[1],
                !.found = found,
                !.pc = IF result[1] = "Raise" THEN "syserror"
                       ELSE IF Deliverable(result[1] = "True", found)
                            THEN "reply"
                            ELSE "failed"]
    /\ UNCHANGED <<worldVars, convVars, outFiles, user_data, emoji, inFiles,
                   chat>>

\* await method(f, caption="Done")
CbReply ==
    /\ cb.pc = "reply"
    /\ \E o \in Outcomes :
         IF o = "fault"
         THEN cb' = [cb EXCEPT !.pc = "syserror"] /\ chat' = chat
         ELSE /\ cb' = [cb EXCEPT !.pc = "delete"]
              /\ chat' = [chat EXCEPT
                            !.delivered = IF cb.fmt = "gif" THEN "animation"
                                          ELSE "video"]
    /\ UNCHANGED <<worldVars, convVars, outFiles, user_data, emoji, inFiles>>

\* await q.message.delete()
CbDelete ==
    /\ cb.pc = "delete"
    /\ \E o \in Outcomes :
         IF o = "fault"
         THEN cb' = [cb EXCEPT !.pc = "syserror"] /\ chat' = chat
         ELSE /\ cb' = [cb EXCEPT !.pc = "finally"]
              /\ chat' = [chat EXCEPT !.text = "deleted"]
    /\ UNCHANGED <<worldVars, convVars, outFiles, user_data, emoji, inFiles>>

\* await q.edit_message_text("Conversion failed.")
CbFailed ==
    /\ cb.pc = "failed"
    /\ \E o \in Outcomes :
         /\ chat' = [chat EXCEPT !.asked = @ \cup {"failed"},
                                 !.text = IF o = "ok" THEN "failed" ELSE @]
         /\ cb' = [cb EXCEPT !.pc = IF o = "ok" THEN "finally" ELSE "syserror"]
    /\ UNCHANGED <<worldVars, convVars, outFiles, user_data, emoji, inFiles>>

\* except Exception: await q.edit_message_text("System error.")
CbSystemError ==
    /\ cb.pc = "syserror"
    /\ \E o \in Outcomes :
         /\ chat' = [chat EXCEPT !.asked = @ \cup {"syserror"},
                                 !.text = IF o = "ok" THEN "syserror" ELSE @]
         /\ cb' = [cb EXCEPT !.pc = "finally", !.raised = (o = "fault")]
    /\ UNCHANGED <<worldVars, convVars, outFiles, user_data, emoji, inFiles>>

\* for p in [in_p, out_p]
CleanupPaths_m(in, out) == {PathStr(in)}
CleanupPaths(in, out) == {PathStr(in), PathStr(out)}

\* finally: every listed path that exists is unlinked; an unlink that
\* fails leaves the file, and its error is dropped
CbFinally ==
    /\ cb.pc = "finally"
    /\ \E failing \in SUBSET {PathStr(cb.in_p), PathStr(cb.out_p)} :
         LET here == (inFiles \cup outFiles) \cap CleanupPaths(cb.in_p, cb.out_p)
             gone == here \ failing
         IN  /\ failing \subseteq here
             /\ inFiles' = inFiles \ gone
             /\ outFiles' = outFiles \ gone
             /\ cb' = [cb EXCEPT !.pc = "end", !.unlinkFailed = (failing # {})]
    /\ UNCHANGED <<worldVars, convVars, user_data, emoji, chat>>

\* every input: each animation, with and without the rasterizer library
Init ==
    /\ rlottie_python \in BOOLEAN
    /\ env \in Envs
    /\ anim \in [InPaths -> Anims]
    /\ InitCalls
    /\ InitHandlers

\* the animations used when calls run concurrently: an empty one and a
\* longest one
ConcurrentAnims == {a \in Anims : a.total \in {0, MaxFrames} /\ a.fps2 = MaxFps2}

\* the environments used when calls run concurrently: the tool on the
\* search path, in the winget tree, nowhere
ConcurrentEnvs ==
    {e \in Envs : e.appdata /\ (IF e.which THEN e.tree = "missing"
                                ELSE e.tree \in {"has", "empty"})}

InitConcurrent ==
    /\ rlottie_python \in BOOLEAN
    /\ env \in ConcurrentEnvs
    /\ anim \in [InPaths -> ConcurrentAnims]
    /\ InitCalls
    /\ InitHandlers

\* no other call has been started
Alone(c) == \A o \in Calls \ {c} : pc[o] = "idle"

\* to_gif / to_mp4 called while no other call has been started
OnlyGif(c) == Alone(c) /\ to_gif(c)

OnlyMp4(c) == Alone(c) /\ to_mp4(c)

\* one convert call runs from entry to return
Next ==
    \E c \in Calls :
        \/ OnlyGif(c)
        \/ OnlyMp4(c)
        \/ PlainInput(c)
        \/ Mkdtemp(c)
        \/ MkdtempFails(c)
        \/ Render(c)
        \/ Launch(c)
        \/ LaunchFails(c)
        \/ EncoderExit(c)
        \/ Communicate(c)
        \/ Finally(c)

Spec == Init /\ [][Next]_vars

\* several convert calls are in progress and their steps interleave
NextConcurrent ==
    \E c \in Calls :
        \/ to_gif(c)
        \/ to_mp4(c)
        \/ PlainInput(c)
        \/ Mkdtemp(c)
        \/ MkdtempFails(c)
        \/ Render(c)
        \/ Launch(c)
        \/ LaunchFails(c)
        \/ EncoderExit(c)
        \/ Communicate(c)
        \/ Finally(c)

SpecConcurrent == InitConcurrent /\ [][NextConcurrent]_vars

\* one user of the bot: stickers and emoji arrive at any time, one button of
\* the keyboard is pressed, and handle_cb runs its convert call (call 1)
InitBot ==
    /\ rlottie_python \in BOOLEAN
    /\ env \in ConcurrentEnvs
    /\ anim \in {[p \in BotInPaths |-> a] : a \in ConcurrentAnims}
    /\ InitCalls
    /\ InitHandlers

NextBot ==
    \/ handle_sticker
    \/ handle_emoji
    \/ EmojiLookupReturns
    \/ handle_cb
    \/ CbAnswered
    \/ CbExpired
    \/ CbProcessing
    \/ CbDownload
    \/ CbConvert
    \/ PlainInput(1)
    \/ Mkdtemp(1)
    \/ MkdtempFails(1)
    \/ Render(1)
    \/ Launch(1)
    \/ LaunchFails(1)
    \/ EncoderExit(1)
    \/ Communicate(1)
    \/ Finally(1)
    \/ CbConverted
    \/ CbReply
    \/ CbDelete
    \/ CbFailed
    \/ CbSystemError
    \/ CbFinally

SpecBot == InitBot /\ [][NextBot]_vars

(***************************************************************************)
(* Properties                                                              *)
(***************************************************************************)
Done(c) == pc[c] = "done"

\* the call has created a temporary directory
MadeDir(c) == temp_dir[c] # None

\* the directory the call created is gone, and so is everything in it
DirGone(c) == temp_dir[c] \notin exists /\ frames[temp_dir[c]] = {}

Ceil2(n) == (n + 1) \div 2

\* floor(F / 2) for the frame rate F = fps2 / 2
FloorHalfRate(fps2) == fps2 \div 4

Range(s) == {s[i] : i \in 1 .. Len(s)}

\* C1 as stated: after any convert call has finished, on every exit path, no
\* files remain under the temporary directory the call created.
C1_NoFilesRemain ==
    \A c \in Calls : Done(c) /\ MadeDir(c) => frames[temp_dir[c]] = {}

\* C1 amended: after any convert call has finished, on every exit path, the
\* temporary directory the call created and the files under it are gone,
\* unless shutil.rmtree itself failed (its errors are ignored).
C1_NoFilesUnlessRmtreeFails ==
    \A c \in Calls :
        Done(c) /\ MadeDir(c) /\ ~hist[c].rmFault => DirGone(c)

C1_Witness ==
    \E c \in Calls :
        /\ Done(c) /\ MadeDir(c) /\ ~hist[c].rmFault
        /\ hist[c].rmtree = 1
        /\ result[c] = "True"
        /\ anim[in_path[c]].total = MaxFrames
        /\ DirGone(c)

\* C2: to_gif / to_mp4 always ends by returning a boolean, never by raising
\* an exception to its caller, whatever step faults.
C2_NeverRaises ==
    \A c \in Calls : Done(c) => result[c] \in {"True", "False"}

\* C3: a render_tgs call in which no render faults, on an animation of N
\* frames at native rate F, emits exactly ceil(N / 2) frame files and returns
\* frame_rate = floor(F / 2).
C3_FrameCountAndRate ==
    \A c \in Calls :
        /\ pc[c] \in {"encode", "communicate", "finally"}
        /\ hist[c].raster = 1
        /\ rlottie_python
        /\ ~hist[c].faulted
        => /\ ptrn[c] = Pattern(temp_dir[c])
           /\ Cardinality(frames[temp_dir[c]]) = Ceil2(anim[in_path[c]].total)
           /\ fps[c] = FloorHalfRate(anim[in_path[c]].fps2)

C3_Witness ==
    \E c \in Calls :
        /\ pc[c] = "encode" /\ hist[c].raster = 1 /\ ~hist[c].faulted
        /\ anim[in_path[c]].total = 3
        /\ anim[in_path[c]].fps2 = 5
        /\ Cardinality(frames[temp_dir[c]]) = 2
        /\ fps[c] = 1

\* C4: when the Dependency Locator yields no binary, convert returns false
\* immediately: no temporary directory, no rasterizer call, no encoder call,
\* no output file.
C4_NoToolNoWork ==
    \A c \in Calls :
        pc[c] # "idle" /\ bin_path[c] = None
        => /\ Done(c)
           /\ result[c] = "False"
           /\ hist[c] = [NoHist EXCEPT !.scanned = hist[c].scanned]
           /\ temp_dir[c] = None
           /\ proc[c] = "none"
           /\ cmd[c] = <<>>
           /\ exists = {}
           /\ out_path[c] \notin outFiles

C4_Witness ==
    \E c \in Calls : Done(c) /\ bin_path[c] = None /\ is_tgs[c]

\* C5 as stated: when the rasterizer returns absence, convert returns false,
\* the encoder is never invoked, and Cleanup removes the temporary directory
\* with any frames rendered before the fault.
C5_AbsenceFailsAndCleans ==
    \A c \in Calls :
        Done(c) /\ hist[c].raster = 1 /\ ptrn[c] = None
        => /\ result[c] = "False"
           /\ hist[c].enc = 0
           /\ proc[c] = "none"
           /\ DirGone(c)

\* C5 amended: when the rasterizer returns absence, convert returns false,
\* the encoder is never invoked, and Cleanup still runs shutil.rmtree on the
\* temporary directory, which removes it with any frames rendered before the
\* fault unless the removal itself fails (its errors are ignored).
C5_AbsenceFailsAndCleanupRuns ==
    \A c \in Calls :
        hist[c].raster = 1 /\ ptrn[c] = None
        => /\ result[c] = "False"
           /\ hist[c].enc = 0
           /\ proc[c] = "none"
           /\ pc[c] \in {"finally", "done"}
           /\ Done(c) => /\ hist[c].rmtree = 1
                         /\ ~hist[c].rmFault => DirGone(c)

C5_Witness ==
    \E c \in Calls :
        /\ Done(c) /\ hist[c].raster = 1 /\ ptrn[c] = None
        /\ hist[c].faulted
        /\ hist[c].rmtree = 1 /\ ~hist[c].rmFault
        /\ DirGone(c)
        /\ result[c] = "False"

\* C6: once the encoder has been invoked, the value convert returns is the
\* encoder's result: true iff the process was launched and exited with
\* status 0; a failure of the directory removal does not change it.
C6_ReturnsEncoderResult ==
    \A c \in Calls :
        Done(c) /\ hist[c].enc = 1
        => /\ result[c] \in {"True", "False"}
           /\ result[c] = "True" <=> (proc[c] = "exited" /\ returncode[c] = 0)

C6_Witness ==
    \E c \in Calls :
        /\ Done(c) /\ hist[c].enc = 1
        /\ hist[c].rmFault
        /\ proc[c] = "exited" /\ returncode[c] = 0
        /\ result[c] = "True"

\* C7: any failure while loading or rendering in render_tgs becomes an
\* absence return (pattern None); render_tgs never raises to its caller.
C7_RenderFaultIsAbsence ==
    \A c \in Calls :
        hist[c].raster = 1 /\ hist[c].faulted
        => /\ ptrn[c] = None
           /\ result[c] = "False"
           /\ pc[c] \in {"finally", "done"}

C7_Witness ==
    \E c \in Calls :
        /\ pc[c] = "finally" /\ hist[c].raster = 1 /\ hist[c].faulted
        /\ frames[temp_dir[c]] # {}
        /\ ptrn[c] = None

\* C8: the encoder process that reads the frame pattern has terminated
\* before Cleanup removes the directory: while it runs the call is waiting
\* in communicate() and the directory of the pattern exists.
C8_NoReadAfterCleanup ==
    \A c \in Calls :
        proc[c] = "running" /\ FrameDirOf(cmd[c]) # None
        => /\ pc[c] = "communicate"
           /\ FrameDirOf(cmd[c]) = temp_dir[c]
           /\ temp_dir[c] \in exists
           /\ hist[c].rmtree = 0

C8_Witness ==
    \E c \in Calls :
        /\ proc[c] = "running"
        /\ FrameDirOf(cmd[c]) # None
        /\ FrameDirOf(cmd[c]) = temp_dir[c]
        /\ frames[temp_dir[c]] # {}

\* C9: concurrent convert calls do not interfere: live calls have pairwise
\* distinct temporary directories, an encoder reads frames only from the
\* directory of its own call, and a step of one call creates, writes or
\* removes only the directory of that call.
Live(c) == pc[c] \notin {"idle", "done"}

OwnDirs ==
    /\ \A c, o \in Calls :
         c # o /\ Live(c) /\ Live(o) /\ MadeDir(c) /\ MadeDir(o)
         => temp_dir[c] # temp_dir[o]
    /\ \A c \in Calls :
         Live(c) /\ MadeDir(c) => owner[temp_dir[c]] = c
    /\ \A c \in Calls :
         proc[c] = "running" /\ FrameDirOf(cmd[c]) # None
         => /\ FrameDirOf(cmd[c]) \in exists
            /\ owner[FrameDirOf(cmd[c])] = c

Acts(c) == pc'[c] # pc[c] \/ proc'[c] # proc[c]

Touched(d) == frames'[d] # frames[d] \/ (d \in exists) # (d \in exists')

OwnDirsOnly ==
    \A c \in Calls, d \in DirNames :
        Acts(c) /\ Touched(d)
        => \/ owner[d] = c /\ temp_dir[c] = d
           \/ d \notin exists /\ owner'[d] = c /\ temp_dir'[c] = d

C9_NoInterference == []OwnDirs /\ [][OwnDirsOnly]_vars

C9_Witness ==
    \E c, o \in Calls :
        /\ c # o
        /\ pc[c] = "communicate" /\ proc[c] = "running"
        /\ pc[o] = "encode"
        /\ MadeDir(c) /\ MadeDir(o)
        /\ frames[temp_dir[c]] # {} /\ frames[temp_dir[o]] # {}

\* C10: the command handed to the encoder starts with the binary and '-y';
\* when the request required rasterization its input is
\* '-framerate <fps> -i <pattern>' with the fps and pattern render_tgs
\* returned, otherwise it is '-i <path>' and has no '-framerate' argument.
C10_InputWiring ==
    \A c \in Calls :
        hist[c].enc = 1
        => /\ cmd[c][1] = bin_path[c]
           /\ cmd[c][2] = "-y"
           /\ IF is_tgs[c]
              THEN /\ SubSeq(cmd[c], 3, 6)
                        = <<"-framerate", ToString(fps[c]), "-i", ptrn[c]>>
                   /\ ptrn[c] = Pattern(temp_dir[c])
              ELSE /\ SubSeq(cmd[c], 3, 4) = <<"-i", in_path[c]>>
                   /\ "-framerate" \notin Range(cmd[c])
           /\ cmd[c][Len(cmd[c])] = out_path[c]

C10_Witness ==
    \E c \in Calls :
        /\ hist[c].enc = 1 /\ is_tgs[c]
        /\ fmt[c] = "mp4"
        /\ cmd[c][3] = "-framerate" /\ cmd[c][4] = "1"
        /\ cmd[c][6] = ptrn[c]

\* C11: for total_frames = 0 render_tgs renders no frame and still returns
\* the frame pattern with frame_rate = floor(F / 2), possibly 0; the
\* orchestrator does not guard the case and goes on to the encoder with
\* that frame rate.
C11_ZeroFramesGoOn ==
    \A c \in Calls :
        /\ hist[c].raster = 1
        /\ rlottie_python
        /\ anim[in_path[c]].total = 0
        /\ ~hist[c].libfault
        => /\ ~hist[c].faulted
           /\ hist[c].saves = <<>>
           /\ ptrn[c] = Pattern(temp_dir[c])
           /\ fps[c] = FloorHalfRate(anim[in_path[c]].fps2)
           /\ pc[c] = "encode" \/ hist[c].enc = 1
           /\ pc[c] \in {"encode", "communicate"} => frames[temp_dir[c]] = {}
           /\ hist[c].enc = 1
              => SubSeq(cmd[c], 3, 4)
                   = <<"-framerate",
                       ToString(FloorHalfRate(anim[in_path[c]].fps2))>>

C11_Witness ==
    \E c \in Calls :
        /\ hist[c].raster = 1 /\ hist[c].enc = 1
        /\ anim[in_path[c]].total = 0
        /\ fps[c] = 0
        /\ proc[c] = "running"
        /\ cmd[c][4] = "0"

\* C12: get_ffmpeg_path returns 'ffmpeg' without scanning the winget tree
\* when the tool is on the search path; the path found in the tree when it
\* is only there; None when it is in neither; and it does not fault when
\* the tree root does not exist or cannot be read.
C12_Locator ==
    \A c \in Calls :
        pc[c] # "idle"
        => /\ env.which => bin_path[c] = "ffmpeg" /\ ~hist[c].scanned
           /\ ~env.which /\ env.appdata /\ env.tree = "has"
              => bin_path[c] = WingetExe /\ hist[c].scanned
           /\ ~env.which
              /\ (~env.appdata \/ env.tree \in {"missing", "empty", "unreadable"})
              => bin_path[c] = None /\ result[c] = "False"
           /\ env.tree \in {"missing", "unreadable", "denied"}
              => bin_path[c] # Unbound /\ result[c] # "Raise"

\* C13: two convert calls with identical inputs and distinct output paths
\* build argument vectors that are equal except for the output path and the
\* per-call frame directory, over the same rendered frames.
SameInputs(c, o) ==
    /\ fmt[c] = fmt[o]
    /\ is_tgs[c] = is_tgs[o]
    /\ in_path[c] = in_path[o]
    /\ out_path[c] # out_path[o]

FrameNumberNames ==
    <<"frame_0000.png", "frame_0001.png", "frame_0002.png", "frame_0003.png",
      "frame_0004.png">>

C14_FrameNumbering ==
    \A c \in Calls :
        hist[c].raster = 1
        => LET sv == hist[c].saves
               N == anim[in_path[c]].total
           IN  /\ \A j \in 1 .. Len(sv) :
                    /\ sv[j].frame_num = 2 * (j - 1)
                    /\ sv[j].frame_num < N
                    /\ sv[j].file = FrameNumberNames[j]
               /\ rlottie_python /\ ~hist[c].faulted
                  => /\ Len(sv) = Ceil2(N)
                     /\ pc[c] \in {"encode", "communicate"}
                        => frames[temp_dir[c]]
                             = {FrameNumberNames[j] : j \in 1 .. Ceil2(N)}

C14_Witness ==
    \E c \in Calls :
        /\ pc[c] = "encode" /\ hist[c].raster = 1 /\ ~hist[c].faulted
        /\ anim[in_path[c]].total = 3
        /\ Len(hist[c].saves) = 2
        /\ hist[c].saves[2] = [file |-> "frame_0001.png", frame_num |-> 2]

\* C15: a convert call is a linear state machine: its steps happen in the
\* order resolve, prepare, encode, cleanup, return and never go back; the
\* locator, the rasterizer and the encoder are each invoked at most once;
\* the rasterizer is invoked and a temporary directory created only when
\* the input requires rasterization.
Rank(p) ==
    CASE p = "idle" -> 0
      [] p = "try" -> 1
      [] p = "render" -> 2
      [] p = "encode" -> 3
      [] p = "communicate" -> 4
      [] p = "finally" -> 5
      [] p = "done" -> 6

LinearState ==
    \A c \in Calls :
        /\ hist[c].mkdtemp <= 1 /\ hist[c].raster <= 1
        /\ hist[c].enc <= 1 /\ hist[c].rmtree <= 1
        /\ hist[c].mkdtemp = 1 => is_tgs[c]
        /\ hist[c].raster = 1 => is_tgs[c] /\ hist[c].mkdtemp = 1
        /\ MadeDir(c) <=> hist[c].mkdtemp = 1
        /\ hist[c].enc = 1 /\ is_tgs[c] => hist[c].raster = 1
        /\ hist[c].enc = 1 => Rank(pc[c]) >= 4 /\ bin_path[c] \notin {None, Unbound}
        /\ hist[c].rmtree = 1 => pc[c] = "done"
        /\ pc[c] = "render" => hist[c].raster = 0
        /\ pc[c] = "encode" => hist[c].enc = 0

LinearStep ==
    \A c \in Calls :
        /\ Rank(pc'[c]) >= Rank(pc[c])
        /\ pc'[c] # pc[c] => Rank(pc'[c]) > Rank(pc[c])
        /\ bin_path'[c] # bin_path[c] => pc[c] = "idle"

C15_Linear == []LinearState /\ [][LinearStep]_vars

C15_Witness ==
    \E c \in Calls :
        /\ pc[c] = "done" /\ is_tgs[c]
        /\ hist[c].mkdtemp = 1 /\ hist[c].raster = 1
        /\ hist[c].enc = 1 /\ hist[c].rmtree = 1

\* C16: a GIF command has the palette filter chain and '-loop 0' and none of
\* the video codec flags; an MP4 command has libx264, yuv420p, CRF 18 and
\* preset slow and no '-loop'; in both the binary is the first argument, the
\* input arguments precede the filter and codec arguments, and the output
\* path is the last argument.
HasPair(s, a, b) == \E i \in 1 .. Len(s) - 1 : s[i] = a /\ s[i + 1] = b

Before(s, a, b) ==
    \A i, j \in 1 .. Len(s) : s[i] = a /\ s[j] = b => i < j

CodecFlags == {"-c:v", "libx264", "-pix_fmt", "yuv420p", "-crf", "-preset"}

PaletteChain ==
    "fps=30,scale=512:512:flags=lanczos,pad=912:512:(ow-iw)/2:(oh-ih)/2:black,split[s0][s1];[s0]palettegen[p];[s1][p]paletteuse"

C16_CommandPerKind ==
    \A c \in Calls :
        hist[c].enc = 1
        => LET a == cmd[c] IN
           /\ a[1] = bin_path[c]
           /\ a[Len(a)] = out_path[c]
           /\ "-i" \in Range(a) /\ "-vf" \in Range(a)
           /\ Before(a, "-i", "-vf")
           /\ Before(a, "-i", "-c:v")
           /\ Before(a, "-i", "-loop")
           /\ IF fmt[c] = "gif"
              THEN /\ HasPair(a, "-vf", PaletteChain)
                   /\ SubSeq(a, Len(a) - 2, Len(a) - 1) = <<"-loop", "0">>
                   /\ Range(a) \cap CodecFlags = {}
              ELSE /\ HasPair(a, "-c:v", "libx264")
                   /\ HasPair(a, "-pix_fmt", "yuv420p")
                   /\ HasPair(a, "-crf", "18")
                   /\ HasPair(a, "-preset", "slow")
                   /\ "-loop" \notin Range(a)

C16_Witness ==
    \E c \in Calls :
        /\ hist[c].enc = 1 /\ fmt[c] = "mp4" /\ is_tgs[c]
        /\ Len(cmd[c]) = 17
        /\ cmd[c][7] = "-c:v"

\* C17: in handle_cb, once the temporary input file has been created, the
\* input path and the derived output path are both absent from the
\* filesystem when the handler ends, on every exit path.
TempCreated == cb.in_p # <<>>

TempAbsent ==
    /\ PathStr(cb.in_p) \notin inFiles \cup outFiles
    /\ PathStr(cb.out_p) \notin inFiles \cup outFiles

C17_TempFilesGone == cb.pc = "end" /\ TempCreated => TempAbsent

\* C17 (amended): ... both paths are absent when the handler ends, on every
\* exit path, unless os.unlink of a path failed: the error is dropped and
\* the file is left behind.
C17_TempFilesGoneUnlessUnlinkFails ==
    /\ TempCreated => cb.in_p # cb.out_p
    /\ cb.pc = "end" /\ TempCreated /\ ~cb.unlinkFailed => TempAbsent

C17_Witness ==
    /\ cb.pc = "end" /\ TempCreated /\ ~cb.unlinkFailed
    /\ chat.delivered # None
    /\ cb.raised
    /\ TempAbsent

\* C18: the session always holds a consistent pair: the 'type' stored with a
\* 'fid' is the type of that sticker; under any interleaving of the
\* handlers of one user, the pair handle_cb reads is consistent, and the
\* input kind it passes to the converter is the kind of the file it
\* downloaded.
PairOk(fid, type) ==
    fid # None
    => /\ type \in {"tgs", "webm"}
       /\ type = "tgs" <=> StickerOf(fid).is_animated

C18_SessionPair ==
    /\ PairOk(user_data.fid, user_data.type)
    /\ cb.pc \notin {"idle", "answer"} => PairOk(cb.fid, cb.st_type)
    /\ pc[1] # "idle"
       => /\ chat.downloaded = cb.fid
          /\ is_tgs[1] <=> StickerOf(chat.downloaded).is_animated
          /\ in_path[1] = PathStr(cb.in_p)

C18_Witness ==
    /\ pc[1] = "communicate"
    /\ is_tgs[1]
    /\ cb.fid = "fidA"
    /\ user_data.fid = "fidV"
    /\ emoji = "lookup"

\* C19: handle_cb delivers a result only when the conversion returned true
\* and the output file exists; whenever the conversion returned false or
\* the output file is missing, no result is delivered and the message is
\* edited to the failure notice.
ConversionReturned == cb.conv \in {"True", "False"}

DeliveredOnlyOnSuccess ==
    chat.delivered # None => cb.conv = "True" /\ cb.found

C19_DeliverOrFailureNotice ==
    /\ DeliveredOnlyOnSuccess
    /\ cb.pc = "end" /\ ConversionReturned /\ ~(cb.conv = "True" /\ cb.found)
       => chat.delivered = None /\ chat.text = "failed"

\* C19 (amended): ... no result is delivered and the handler asks for the
\* message to be edited to the failure notice; the message shows it unless
\* that request faults, and then the handler asks for the system-error
\* notice instead.
C19_DeliverOrFailureNoticeAsked ==
    /\ DeliveredOnlyOnSuccess
    /\ cb.pc = "end" /\ ConversionReturned /\ ~(cb.conv = "True" /\ cb.found)
       => /\ chat.delivered = None
          /\ "failed" \in chat.asked
          /\ chat.text = "failed" \/ "syserror" \in chat.asked

C19_Witness ==
    /\ cb.pc = "end"
    /\ cb.conv = "True" /\ ~cb.found
    /\ chat.delivered = None
    /\ chat.text = "failed"

====
